---- MODULE Spec2Model ----
(***************************************************************************)
(* PostGraph (src/analysis/post_graph.py): an undirected graph whose nodes *)
(* are posts and whose edges join posts sharing at least                   *)
(* min_shared_keywords keywords, maintained through an inverted keyword    *)
(* index.                                                                  *)
(*                                                                         *)
(* A Python dict keeps its keys in insertion order, and the code iterates  *)
(* _nodes and _adj, so a dict is modelled as a sequence of [key, val]      *)
(* records.  A Python set of str iterates in hash order, which differs     *)
(* from run to run, so the order in which add_post meets its candidates is *)
(* a nondeterministic choice.  _keyword_index is only ever looked up by    *)
(* key, so it is a function from the keywords present to sets of ids.      *)
(***************************************************************************)
EXTENDS Integers, Sequences, FiniteSets, TLC

\* ------------------------------------------------------------------------
\* Bounds and input sets
\* ------------------------------------------------------------------------

\* The post ids the callers use.
PostIds == {"p1", "p2", "p3"}

\* The matched_keywords lists the callers supply: the empty list, plain
\* lists, a list with an upper-case keyword, and a list that repeats a
\* keyword in two casings.  Lowercased they are {}, {a,b,c}, {a,b}, {b,c}
\* and {c}.
KeywordLists ==
    { <<>>,
      <<"a", "b", "c">>,
      <<"B", "a">>,
      <<"c", "b", "C">>,
      <<"c">> }

\* The values min_shared_keywords is constructed with: 0..MaxThreshold.
MaxThreshold == 2

Thresholds == 0..MaxThreshold

\* The cluster_ids lists passed to get_cluster_keywords: every list of at
\* most MaxClusterIds ids, so with repeated ids and ids that are not nodes.
MaxClusterIds == 2

ClusterIdLists == UNION {[1..k -> PostIds] : k \in 0..MaxClusterIds}

\* The min_size values passed to get_clusters (its default is 2).
MaxMinSize == 4

MinSizes == 0..MaxMinSize

\* The posts lists passed to add_posts and from_posts: every list of at most
\* MaxBatchLen of the posts of BatchPosts, so with ids that are nodes
\* already and an id that comes twice in one list, with different keywords.
MaxBatchLen == 2

\* The limit values passed to get_most_connected.
MaxLimit == 4

Limits == 0..MaxLimit

\* ------------------------------------------------------------------------
\* Python built-ins
\* ------------------------------------------------------------------------

\* str.lower() on the keywords in use.
Lower(kw) ==
    CASE kw = "A" -> "a"
      [] kw = "B" -> "b"
      [] kw = "C" -> "c"
      [] OTHER -> kw

\* dict: key in d
DictHas(d, k) == \E i \in 1..Len(d) : d[i].key = k

\* dict: the keys, as a set and in iteration order
DictKeys(d) == {d[i].key : i \in 1..Len(d)}

DictKeyList(d) == [i \in 1..Len(d) |-> d[i].key]

\* dict: d[k]
DictGet(d, k) == d[CHOOSE i \in 1..Len(d) : d[i].key = k].val

\* dict: d[k] = v (a present key keeps its position, a new one goes last)
DictPut(d, k, v) ==
    IF DictHas(d, k)
    THEN [i \in 1..Len(d) |-> IF d[i].key = k THEN [key |-> k, val |-> v] ELSE d[i]]
    ELSE Append(d, [key |-> k, val |-> v])

\* dict: d.setdefault(k, {}) as far as d is concerned
DictSetDefault(d, k) == IF DictHas(d, k) THEN d ELSE Append(d, [key |-> k, val |-> <<>>])

\* dict: d.get(k, {})
DictGetOrEmpty(d, k) == IF DictHas(d, k) THEN DictGet(d, k) ELSE <<>>

\* dict: del d[k] / d.pop(k, None)
DictDel(d, k) == SelectSeq(d, LAMBDA e : e.key # k)

\* All orders in which a set can be iterated.
Orders(S) == {s \in [1..Cardinality(S) -> S] : \A x \in S : \E i \in DOMAIN s : s[i] = x}

\* ------------------------------------------------------------------------
\* State
\* ------------------------------------------------------------------------

VARIABLES
    min_shared_keywords,  \* self.min_shared_keywords
    nodes,                \* self._nodes: post_id -> post
    adj,                  \* self._adj: post_id -> (neighbor id -> Edge)
    keyword_index,        \* self._keyword_index: keyword -> set of post_ids
    last,                 \* history: the last call made and what it returned
    calls,                \* per producer thread: the call it is inside
    log,                  \* history: per producer thread, the calls it made
    answer,               \* history: the last batch or read call and its result
    previous              \* history: the post the id just inserted held when
                          \* the call just before removed it

vars == <<min_shared_keywords, nodes, adj, keyword_index, last, calls, log, answer,
          previous>>

\* An OSINTPost, as far as the graph reads it.
OSINTPost(id, kws) == [post_id |-> id, matched_keywords |-> kws]

Edge(a, b, shared) == [post_id_a |-> a, post_id_b |-> b, shared_keywords |-> shared]

\* Stands for "no post" in the history variable.
NoPost == OSINTPost("", <<>>)

\* The record kept of a call:
\*   op       the method called
\*   present  whether the id passed was a node when the call was made
\*   repeat   add_post only: the post passed equals the post the id holds
\*            (present) or the post the call just before removed (not present)
\*   ret      what add_post returned (remove_post returns None, kept as 0)
\*   removed  the post a remove_post took out, NoPost otherwise
Call(op, present, repeat, ret, removed) ==
    [op |-> op, present |-> present, repeat |-> repeat, ret |-> ret,
     removed |-> removed]

\* The threads that call the graph when it is shared between producers.
Producers == {"t1", "t2"}

\* Where a producer is inside a call: the line it is about to run, the post
\* (or, for remove_post, the id) it was called with, and the locals
\* candidate_counts and its iteration order once they are computed.
Frame(pc, post, cc, order) == [pc |-> pc, post |-> post, cc |-> cc, order |-> order]

Idle == Frame("idle", NoPost, <<>>, <<>>)

\* The record kept of a batch or read call: the method, its arguments and
\* what it returned.
Answer(op, args, value) == [op |-> op, args |-> args, value |-> value]

NoAnswer == Answer("none", <<>>, <<>>)

Init ==
    /\ min_shared_keywords \in Thresholds
    /\ nodes = <<>>
    /\ adj = <<>>
    /\ keyword_index = <<>>
    /\ last = Call("init", FALSE, FALSE, 0, NoPost)
    /\ calls = [t \in Producers |-> Idle]
    /\ log = [t \in Producers |-> <<>>]
    /\ answer = NoAnswer
    /\ previous = NoPost

\* ------------------------------------------------------------------------
\* add_post
\* ------------------------------------------------------------------------

\* set(kw.lower() for kw in post.matched_keywords)
post_keywords(post) ==
    {Lower(post.matched_keywords[i]) : i \in 1..Len(post.matched_keywords)}

\* self._keyword_index.get(kw, set())
IndexGet(index, kw) == IF kw \in DOMAIN index THEN index[kw] ELSE {}

\* Variant of candidate_counts: every candidate is credited with all the
\* keywords of the new post, not only those it is registered under.
candidate_counts_all_keywords(index, kws) ==
    [other_id \in UNION {IndexGet(index, kw) : kw \in kws} |-> kws]

\* Variant of candidate_counts: every id in the index is a candidate, with
\* the keywords of the new post it is registered under, possibly none.
candidate_counts_all_indexed(index, kws) ==
    [other_id \in UNION {index[kw] : kw \in DOMAIN index} |->
        {kw \in kws : other_id \in IndexGet(index, kw)}]

\* The candidate_counts dict once the lookup loops are over, without its
\* key order: other_id -> the keywords of the new post it is registered under.
candidate_counts(index, kws) ==
    [other_id \in UNION {IndexGet(index, kw) : kw \in kws} |->
        {kw \in kws : other_id \in IndexGet(index, kw)}]

\* Variant of AddEdges: the test against min_shared_keywords is missing.
RECURSIVE AddEdges_no_threshold(_, _, _, _, _, _)
AddEdges_no_threshold(a, pid, order, cc, threshold, i) ==
    IF i > Len(order) THEN a
    ELSE LET other_id == order[i]
             edge == Edge(pid, other_id, cc[other_id])
             a1 == DictPut(a, pid, DictPut(DictGet(a, pid), other_id, edge))
             a2 == DictSetDefault(a1, other_id)
             a3 == DictPut(a2, other_id, DictPut(DictGet(a2, other_id), pid, edge))
         IN  AddEdges_no_threshold(a3, pid, order, cc, threshold, i + 1)

\* The edge loop over candidate_counts.items(), from position i of the
\* iteration order on.
RECURSIVE AddEdges(_, _, _, _, _, _)
AddEdges(a, pid, order, cc, threshold, i) ==
    IF i > Len(order) THEN a
    ELSE LET other_id == order[i]
             shared == cc[other_id]
         IN  IF Cardinality(shared) >= threshold
             THEN LET edge == Edge(pid, other_id, shared)
                      a1 == DictPut(a, pid, DictPut(DictGet(a, pid), other_id, edge))
                      a2 == DictSetDefault(a1, other_id)
                      a3 == DictPut(a2, other_id,
                                    DictPut(DictGet(a2, other_id), pid, edge))
                  IN  AddEdges(a3, pid, order, cc, threshold, i + 1)
             ELSE AddEdges(a, pid, order, cc, threshold, i + 1)

\* edges_created
EdgesCreated(order, cc, threshold) ==
    Len(SelectSeq(order, LAMBDA o : Cardinality(cc[o]) >= threshold))

\* Variant of IndexAdd: setdefault(kw, {id}) with the add forgotten, so a
\* keyword that already has a postings list does not get the new id.
IndexAdd_new_keywords_only(index, kws, pid) ==
    [kw \in (DOMAIN index) \cup kws |->
        IF kw \in DOMAIN index THEN index[kw] ELSE {pid}]

\* The index after "for kw in post_keywords: setdefault(kw, set()).add(id)".
IndexAdd(index, kws, pid) ==
    [kw \in (DOMAIN index) \cup kws |->
        IF kw \in kws THEN IndexGet(index, kw) \cup {pid} ELSE index[kw]]

\* Variant of AddPostResults: no early return for an id that is a node.
AddPostResults_no_presence_check(n, a, index, threshold, post) ==
    LET kws == post_keywords(post)
        cc == candidate_counts(index, kws)
        n1 == DictPut(n, post.post_id, post)
        a1 == DictSetDefault(a, post.post_id)
    IN  {<<n1,
           AddEdges(a1, post.post_id, order, cc, threshold, 1),
           IndexAdd(index, kws, post.post_id),
           EdgesCreated(order, cc, threshold)>> : order \in Orders(DOMAIN cc)}

\* Variant of AddPostResults: the new post's keywords are registered in the
\* index before the candidates are looked up.
AddPostResults_index_first(n, a, index, threshold, post) ==
    IF DictHas(n, post.post_id)
    THEN {<<n, a, index, 0>>}
    ELSE LET kws == post_keywords(post)
             index1 == IndexAdd(index, kws, post.post_id)
             cc == candidate_counts(index1, kws)
             n1 == DictPut(n, post.post_id, post)
             a1 == DictSetDefault(a, post.post_id)
         IN  {<<n1,
                AddEdges(a1, post.post_id, order, cc, threshold, 1),
                index1,
                EdgesCreated(order, cc, threshold)>> : order \in Orders(DOMAIN cc)}

\* What add_post can leave and return, as <<nodes, adj, keyword_index,
\* result>>: one outcome for each order in which candidate_counts can be
\* iterated, a single one when the id is already a node.
AddPostResults(n, a, index, threshold, post) ==
    IF DictHas(n, post.post_id)
    THEN {<<n, a, index, 0>>}
    ELSE LET kws == post_keywords(post)
             cc == candidate_counts(index, kws)
             n1 == DictPut(n, post.post_id, post)
             a1 == DictSetDefault(a, post.post_id)
         IN  {<<n1,
                AddEdges(a1, post.post_id, order, cc, threshold, 1),
                IndexAdd(index, kws, post.post_id),
                EdgesCreated(order, cc, threshold)>> : order \in Orders(DOMAIN cc)}

add_post(post) ==
    \E r \in AddPostResults(nodes, adj, keyword_index, min_shared_keywords, post) :
        /\ nodes' = r[1]
        /\ adj' = r[2]
        /\ keyword_index' = r[3]
        /\ last' = Call("add_post",
                        DictHas(nodes, post.post_id),
                        IF DictHas(nodes, post.post_id)
                        THEN DictGet(nodes, post.post_id) = post
                        ELSE last.removed = post,
                        r[4], NoPost)
        /\ UNCHANGED min_shared_keywords

\* ------------------------------------------------------------------------
\* remove_post
\* ------------------------------------------------------------------------

\* Variant of IndexRemove: the postings lists of the removed post's keywords
\* are deleted whether or not other ids remain in them.
IndexRemove_drop_lists(index, kws, pid) ==
    [kw \in {k \in DOMAIN index : k \notin kws} |-> index[kw]]

\* Variant of IndexRemove: a postings list that becomes empty is kept.
IndexRemove_keep_empty(index, kws, pid) ==
    [kw \in DOMAIN index |-> IF kw \in kws THEN index[kw] \ {pid} ELSE index[kw]]

\* The index after the "Remove from keyword index" loop.
IndexRemove(index, kws, pid) ==
    LET discarded == [kw \in DOMAIN index |->
                         IF kw \in kws THEN index[kw] \ {pid} ELSE index[kw]]
        kept == {kw \in DOMAIN index : kw \notin kws \/ discarded[kw] # {}}
    IN  [kw \in kept |-> discarded[kw]]

\* Variant of RemoveFromNeighbors: each neighbor loses its whole adjacency
\* entry instead of the one edge to pid.
RECURSIVE RemoveFromNeighbors_clears_entry(_, _, _, _)
RemoveFromNeighbors_clears_entry(a, pid, neighbor_ids, i) ==
    IF i > Len(neighbor_ids) THEN a
    ELSE RemoveFromNeighbors_clears_entry(
             DictPut(a, neighbor_ids[i], <<>>), pid, neighbor_ids, i + 1)

\* Variant of RemoveFromNeighbors: the neighbors keep their edge entries.
RemoveFromNeighbors_skip(a, pid, neighbor_ids, i) == a

\* The "Remove edges from neighbors" loop over list(self._adj.get(post_id, {})).
RECURSIVE RemoveFromNeighbors(_, _, _, _)
RemoveFromNeighbors(a, pid, neighbor_ids, i) ==
    IF i > Len(neighbor_ids) THEN a
    ELSE LET neighbor_id == neighbor_ids[i]
         IN  RemoveFromNeighbors(
                 DictPut(a, neighbor_id, DictDel(DictGet(a, neighbor_id), pid)),
                 pid, neighbor_ids, i + 1)

\* Variant of RemovePostResult: the keyword index is left as it was.
RemovePostResult_index_untouched(n, a, index, pid) ==
    IF ~DictHas(n, pid)
    THEN <<n, a, index>>
    ELSE LET a1 == RemoveFromNeighbors(a, pid, DictKeyList(DictGetOrEmpty(a, pid)), 1)
         IN  <<DictDel(n, pid), DictDel(a1, pid), index>>

\* Variant of RemovePostResult: an id that is not a node takes the most
\* recently added node out instead of returning at once.
RemovePostResult_absent_pops_last(n, a, index, pid) ==
    LET victim == IF DictHas(n, pid) \/ n = <<>> THEN pid ELSE n[Len(n)].key
    IN  IF ~DictHas(n, victim)
        THEN <<n, a, index>>
        ELSE LET kws == post_keywords(DictGet(n, victim))
                 a1 == RemoveFromNeighbors(a, victim,
                                           DictKeyList(DictGetOrEmpty(a, victim)), 1)
             IN  <<DictDel(n, victim), DictDel(a1, victim),
                   IndexRemove(index, kws, victim)>>

\* Variant of RemovePostResult: the adjacency entry of the id is kept.
RemovePostResult_keeps_entry(n, a, index, pid) ==
    IF ~DictHas(n, pid)
    THEN <<n, a, index>>
    ELSE LET kws == post_keywords(DictGet(n, pid))
             a1 == RemoveFromNeighbors(a, pid, DictKeyList(DictGetOrEmpty(a, pid)), 1)
         IN  <<DictDel(n, pid), a1, IndexRemove(index, kws, pid)>>

\* The graph remove_post leaves, as <<nodes, adj, keyword_index>>.
RemovePostResult(n, a, index, pid) ==
    IF ~DictHas(n, pid)
    THEN <<n, a, index>>
    ELSE LET post == DictGet(n, pid)
             kws == post_keywords(post)
             a1 == RemoveFromNeighbors(a, pid, DictKeyList(DictGetOrEmpty(a, pid)), 1)
         IN  <<DictDel(n, pid), DictDel(a1, pid), IndexRemove(index, kws, pid)>>

remove_post(pid) ==
    \E r \in {RemovePostResult(nodes, adj, keyword_index, pid)} :
        /\ nodes' = r[1]
        /\ adj' = r[2]
        /\ keyword_index' = r[3]
        /\ last' = Call("remove_post", DictHas(nodes, pid), FALSE, 0,
                        IF DictHas(nodes, pid) THEN DictGet(nodes, pid) ELSE NoPost)
        /\ UNCHANGED min_shared_keywords

\* ------------------------------------------------------------------------
\* add_posts and from_posts
\* ------------------------------------------------------------------------

BatchPosts ==
    {OSINTPost("p1", <<"B", "a">>), OSINTPost("p1", <<"a", "b", "c">>),
     OSINTPost("p2", <<"a", "b", "c">>), OSINTPost("p3", <<"c", "b", "C">>)}

Batches == UNION {[1..k -> BatchPosts] : k \in 0..MaxBatchLen}

\* Variant of AddPostsResults: nodes_added counts every post of the list.
RECURSIVE AddPostsResults_counts_every_post(_, _, _, _, _, _)
AddPostsResults_counts_every_post(n, a, index, threshold, posts, i) ==
    IF i = 0 THEN {<<n, a, index, 0, 0>>}
    ELSE UNION {
           IF ~DictHas(g[1], posts[i].post_id)
           THEN {<<r[1], r[2], r[3], g[4] + 1, g[5] + r[4]>> :
                    r \in AddPostResults(g[1], g[2], g[3], threshold, posts[i])}
           ELSE {<<g[1], g[2], g[3], g[4] + 1, g[5]>>}
           : g \in AddPostsResults_counts_every_post(n, a, index, threshold, posts, i - 1)}

\* The loop of add_posts over posts[1..i]: the outcomes <<nodes, adj,
\* keyword_index, nodes_added, edges_created>>.
RECURSIVE AddPostsResults(_, _, _, _, _, _)
AddPostsResults(n, a, index, threshold, posts, i) ==
    IF i = 0 THEN {<<n, a, index, 0, 0>>}
    ELSE UNION {
           IF ~DictHas(g[1], posts[i].post_id)
           THEN {<<r[1], r[2], r[3], g[4] + 1, g[5] + r[4]>> :
                    r \in AddPostResults(g[1], g[2], g[3], threshold, posts[i])}
           ELSE {g}
           : g \in AddPostsResults(n, a, index, threshold, posts, i - 1)}

add_posts(posts) ==
    \E r \in AddPostsResults(nodes, adj, keyword_index, min_shared_keywords,
                             posts, Len(posts)) :
        /\ nodes' = r[1]
        /\ adj' = r[2]
        /\ keyword_index' = r[3]
        /\ answer' = Answer("add_posts", posts,
                            [nodes_added |-> r[4], edges_created |-> r[5]])
        /\ last' = Call("add_posts", FALSE, FALSE, r[5], NoPost)
        /\ UNCHANGED <<min_shared_keywords, calls, log, previous>>

\* from_posts: a new graph with threshold min_shared, filled by add_posts.
\* It is a constructor: the graph it makes is the one the model holds from
\* then on, so it is the first call made.
from_posts(posts, min_shared) ==
    /\ last.op = "init"
    /\ \E r \in AddPostsResults(<<>>, <<>>, <<>>, min_shared, posts, Len(posts)) :
           /\ min_shared_keywords' = min_shared
           /\ nodes' = r[1]
           /\ adj' = r[2]
           /\ keyword_index' = r[3]
           /\ answer' = Answer("from_posts", <<posts, min_shared>>, <<>>)
           /\ last' = Call("from_posts", FALSE, FALSE, r[5], NoPost)
           /\ UNCHANGED <<calls, log, previous>>

\* ------------------------------------------------------------------------
\* Read operations
\* ------------------------------------------------------------------------

\* has_post
has_post(pid) == DictHas(nodes, pid)

\* Variant of get_shared_keywords: the keywords the two posts have in
\* common now, whether or not an edge joins them.
get_shared_keywords_of_posts(id_a, id_b) ==
    IF DictHas(nodes, id_a) /\ DictHas(nodes, id_b)
    THEN post_keywords(DictGet(nodes, id_a)) \cap post_keywords(DictGet(nodes, id_b))
    ELSE {}

\* get_shared_keywords: the edge found by self._adj.get(id_a, {}).get(id_b)
get_shared_keywords(id_a, id_b) ==
    LET neighbors == DictGetOrEmpty(adj, id_a)
    IN  IF DictHas(neighbors, id_b)
        THEN DictGet(neighbors, id_b).shared_keywords
        ELSE {}

\* Variant of Bfs: the queue is popped at its right end, which makes the
\* traversal depth-first.
RECURSIVE Bfs_pop_right(_, _, _, _)
Bfs_pop_right(a, queue, visited, component) ==
    IF queue = <<>> THEN <<visited, component>>
    ELSE LET current == queue[Len(queue)]
             rest == SubSeq(queue, 1, Len(queue) - 1)
         IN  IF current \in visited
             THEN Bfs_pop_right(a, rest, visited, component)
             ELSE LET seen == visited \cup {current}
                      unvisited == SelectSeq(DictKeyList(DictGetOrEmpty(a, current)),
                                             LAMBDA neighbor_id : neighbor_id \notin seen)
                  IN  Bfs_pop_right(a, rest \o unvisited, seen, Append(component, current))

\* The while loop of get_connected_components: <<visited, component>> once
\* the queue is empty.
RECURSIVE Bfs(_, _, _, _)
Bfs(a, queue, visited, component) ==
    IF queue = <<>> THEN <<visited, component>>
    ELSE LET current == Head(queue)
         IN  IF current \in visited
             THEN Bfs(a, Tail(queue), visited, component)
             ELSE LET seen == visited \cup {current}
                      unvisited == SelectSeq(DictKeyList(DictGetOrEmpty(a, current)),
                                             LAMBDA neighbor_id : neighbor_id \notin seen)
                  IN  Bfs(a, Tail(queue) \o unvisited, seen, Append(component, current))

\* Variant of ComponentsFrom: the nodes a traversal visited are forgotten
\* when the next one starts.
RECURSIVE ComponentsFrom_visited_reset(_, _, _, _, _)
ComponentsFrom_visited_reset(n, a, i, visited, components) ==
    IF i > Len(n) THEN components
    ELSE LET r == Bfs(a, <<n[i].key>>, {}, <<>>)
         IN  ComponentsFrom_visited_reset(n, a, i + 1, r[1], Append(components, r[2]))

\* The for loop of get_connected_components over self._nodes, from position
\* i on: the components list before it is sorted.
RECURSIVE ComponentsFrom(_, _, _, _, _)
ComponentsFrom(n, a, i, visited, components) ==
    IF i > Len(n) THEN components
    ELSE LET node_id == n[i].key
         IN  IF node_id \in visited
             THEN ComponentsFrom(n, a, i + 1, visited, components)
             ELSE LET r == Bfs(a, <<node_id>>, visited, <<>>)
                  IN  ComponentsFrom(n, a, i + 1, r[1], Append(components, r[2]))

\* Variant of InsertByLen: a component goes before those of its own length,
\* as an unstable sort may leave them.
RECURSIVE InsertByLen_before_equals(_, _)
InsertByLen_before_equals(sorted, c) ==
    IF sorted = <<>> THEN <<c>>
    ELSE IF Len(Head(sorted)) > Len(c)
         THEN <<Head(sorted)>> \o InsertByLen_before_equals(Tail(sorted), c)
         ELSE <<c>> \o sorted

\* list.sort(key=len, reverse=True): a stable sort, longest first; comps is
\* inserted into the sorted list one element at a time.
RECURSIVE InsertByLen(_, _)
InsertByLen(sorted, c) ==
    IF sorted = <<>> THEN <<c>>
    ELSE IF Len(Head(sorted)) >= Len(c)
         THEN <<Head(sorted)>> \o InsertByLen(Tail(sorted), c)
         ELSE <<c>> \o sorted

RECURSIVE SortByLenReverse(_, _)
SortByLenReverse(comps, i) ==
    IF i = 0 THEN <<>>
    ELSE InsertByLen(SortByLenReverse(comps, i - 1), comps[i])

components_of(n, a) ==
    LET components == ComponentsFrom(n, a, 1, {}, <<>>)
    IN  SortByLenReverse(components, Len(components))

get_connected_components == components_of(nodes, adj)

\* get_post: self._nodes.get(post_id), None being NoPost
get_post(pid) == IF DictHas(nodes, pid) THEN DictGet(nodes, pid) ELSE NoPost

\* Variant of get_neighbors: the entries are read from the node table, one
\* per node other than post_id, instead of from the adjacency entry.
get_neighbors_all_nodes(pid) ==
    LET others == SelectSeq(nodes, LAMBDA e : e.key # pid)
    IN  [i \in 1..Len(others) |-> <<others[i].val, Edge(pid, others[i].key, {})>>]

\* get_neighbors: a (post, edge) pair for each item of
\* self._adj.get(post_id, {}) whose key is in self._nodes (an OSINTPost is
\* always truthy).
get_neighbors(pid) ==
    LET found == SelectSeq(DictGetOrEmpty(adj, pid), LAMBDA e : DictHas(nodes, e.key))
    IN  [i \in 1..Len(found) |-> <<DictGet(nodes, found[i].key), found[i].val>>]

\* sum(len(neighbors) for neighbors in self._adj.values()), from position i on
RECURSIVE DegreeSum(_, _)
DegreeSum(a, i) == IF i > Len(a) THEN 0 ELSE Len(a[i].val) + DegreeSum(a, i + 1)

\* Variant of edge_count_of: the total is not halved.
edge_count_of_not_halved(a) == DegreeSum(a, 1)

\* edge_count of a graph with adjacency map a
edge_count_of(a) == DegreeSum(a, 1) \div 2

edge_count == edge_count_of(adj)

\* [len(self._adj.get(pid, {})) for pid in self._nodes]
Degrees(n, a) == [i \in 1..Len(n) |-> Len(DictGetOrEmpty(a, n[i].key))]

\* sum(degrees), from position i on
RECURSIVE SumFrom(_, _)
SumFrom(list, i) == IF i > Len(list) THEN 0 ELSE list[i] + SumFrom(list, i + 1)

\* round(num / den, 2), as a number of hundredths: the nearest hundredth,
\* the even one when two are as near.  (The float division is taken as
\* exact; with the degrees and node counts met here no quotient is a tie.)
RoundHundredths(num, den) ==
    LET scaled == 100 * num
        q == scaled \div den
        twice == 2 * (scaled % den)
    IN  IF twice > den \/ (twice = den /\ q % 2 = 1) THEN q + 1 ELSE q

\* Variant of get_stats_of: the largest component is taken from the end of
\* the list.
get_stats_of_last_component(n, a) ==
    LET components == components_of(n, a)
        degrees == Degrees(n, a)
    IN  [node_count |-> Len(n),
         edge_count |-> edge_count_of(a),
         component_count |-> Len(components),
         largest_component_size |->
             IF components # <<>> THEN Len(components[Len(components)]) ELSE 0,
         avg_degree |->
             RoundHundredths(SumFrom(degrees, 1),
                             IF Len(degrees) > 1 THEN Len(degrees) ELSE 1)]

\* get_stats of a graph with node table n and adjacency map a; avg_degree
\* in hundredths.
get_stats_of(n, a) ==
    LET components == components_of(n, a)
        degrees == Degrees(n, a)
    IN  [node_count |-> Len(n),
         edge_count |-> edge_count_of(a),
         component_count |-> Len(components),
         largest_component_size |->
             IF components # <<>> THEN Len(components[1]) ELSE 0,
         avg_degree |->
             RoundHundredths(SumFrom(degrees, 1),
                             IF Len(degrees) > 1 THEN Len(degrees) ELSE 1)]

get_stats == get_stats_of(nodes, adj)

\* Variant of InsertByDegree: an item goes before those of its own degree.
RECURSIVE InsertByDegree_before_equals(_, _)
InsertByDegree_before_equals(sorted, item) ==
    IF sorted = <<>> THEN <<item>>
    ELSE IF Head(sorted)[2] > item[2]
         THEN <<Head(sorted)>> \o InsertByDegree_before_equals(Tail(sorted), item)
         ELSE <<item>> \o sorted

\* items.sort(key=lambda x: x[1], reverse=True): a stable sort, highest
\* degree first; item is inserted into the sorted list.
RECURSIVE InsertByDegree(_, _)
InsertByDegree(sorted, item) ==
    IF sorted = <<>> THEN <<item>>
    ELSE IF Head(sorted)[2] >= item[2]
         THEN <<Head(sorted)>> \o InsertByDegree(Tail(sorted), item)
         ELSE <<item>> \o sorted

RECURSIVE SortByDegreeReverse(_, _)
SortByDegreeReverse(items, i) ==
    IF i = 0 THEN <<>>
    ELSE InsertByDegree(SortByDegreeReverse(items, i - 1), items[i])

\* items[:limit]: for a negative limit, all but the last -limit items.
Slice(items, limit) ==
    LET stop == IF limit >= 0
                THEN (IF limit < Len(items) THEN limit ELSE Len(items))
                ELSE (IF Len(items) + limit > 0 THEN Len(items) + limit ELSE 0)
    IN  SubSeq(items, 1, stop)

\* get_most_connected: (post, degree) for each item of self._adj whose key
\* is in self._nodes, sorted, cut at limit.
get_most_connected(limit) ==
    LET found == SelectSeq(adj, LAMBDA e : DictHas(nodes, e.key))
        items == [i \in 1..Len(found) |-> <<DictGet(nodes, found[i].key), Len(found[i].val)>>]
    IN  Slice(SortByDegreeReverse(items, Len(items)), limit)

\* Variant of ClustersFrom: a component needs more than min_size members.
RECURSIVE ClustersFrom_strict(_, _, _, _)
ClustersFrom_strict(n, components, min_size, i) ==
    IF i > Len(components) THEN <<>>
    ELSE LET comp == components[i]
             rest == ClustersFrom_strict(n, components, min_size, i + 1)
         IN  IF Len(comp) > min_size
             THEN <<[j \in 1..Len(comp) |-> DictGet(n, comp[j])]>> \o rest
             ELSE rest

\* The loop of get_clusters over the components, from position i on.
RECURSIVE ClustersFrom(_, _, _, _)
ClustersFrom(n, components, min_size, i) ==
    IF i > Len(components) THEN <<>>
    ELSE LET comp == components[i]
             rest == ClustersFrom(n, components, min_size, i + 1)
         IN  IF Len(comp) >= min_size
             THEN <<[j \in 1..Len(comp) |-> DictGet(n, comp[j])]>> \o rest
             ELSE rest

get_clusters(min_size) == ClustersFrom(nodes, get_connected_components, min_size, 1)

\* counts[kw_lower] = counts.get(kw_lower, 0) + 1
Increment(counts, kw) ==
    [k \in (DOMAIN counts) \cup {kw} |->
        IF k = kw
        THEN (IF kw \in DOMAIN counts THEN counts[kw] ELSE 0) + 1
        ELSE counts[k]]

\* The inner loop of get_cluster_keywords over post.matched_keywords.
RECURSIVE CountKeywords(_, _, _)
CountKeywords(counts, kws, i) ==
    IF i > Len(kws) THEN counts
    ELSE CountKeywords(Increment(counts, Lower(kws[i])), kws, i + 1)

\* The outer loop of get_cluster_keywords over cluster_ids.
RECURSIVE CountCluster(_, _, _, _)
CountCluster(n, counts, cluster_ids, i) ==
    IF i > Len(cluster_ids) THEN counts
    ELSE LET pid == cluster_ids[i]
         IN  IF DictHas(n, pid)
             THEN CountCluster(n, CountKeywords(counts, DictGet(n, pid).matched_keywords, 1),
                               cluster_ids, i + 1)
             ELSE CountCluster(n, counts, cluster_ids, i + 1)

get_cluster_keywords(cluster_ids) == CountCluster(nodes, <<>>, cluster_ids, 1)

\* ------------------------------------------------------------------------
\* Specification
\* ------------------------------------------------------------------------

AddPost ==
    /\ \E id \in PostIds, kws \in KeywordLists : add_post(OSINTPost(id, kws))
    /\ UNCHANGED <<calls, log, answer, previous>>

RemovePost ==
    /\ \E id \in PostIds : remove_post(id)
    /\ UNCHANGED <<calls, log, answer, previous>>

Next == AddPost \/ RemovePost

Spec == Init /\ [][Next]_vars

\* ------------------------------------------------------------------------
\* One graph shared by producer threads
\* ------------------------------------------------------------------------
\* PostGraph.__init__ creates no lock and no method takes one, so when
\* several threads call the same graph, a thread can be suspended between
\* any two statements of add_post or remove_post.  A step here is one
\* statement; a loop (the candidate lookup, the edge loop, the index loops,
\* the neighbor loop) is taken as a single step, which leaves interleavings
\* out but adds none.

\* The id each producer files its documents under.
ProducerPostId(t) == IF t = "t1" THEN "p1" ELSE "p2"

\* The keyword lists the producers' documents carry.
ProducerKeywordLists == {<<"B", "a">>, <<"a", "b", "c">>}

\* Calls each producer makes at most.
MaxCallsPerProducer == 2

\* What the log keeps of a call: the method, its argument (remove_post: a
\* post holding the id only), and whether the call ended in an exception.
Logged(op, post) == [op |-> op, post |-> post, raised |-> FALSE]

\* The call of thread t moves on to the statement at pc.
Goto(t, pc) == calls' = [calls EXCEPT ![t].pc = pc]

\* The call of thread t returns.
Return(t) == calls' = [calls EXCEPT ![t] = Idle]

\* The call of thread t is ended by a KeyError.
Raise(t) ==
    /\ calls' = [calls EXCEPT ![t] = Idle]
    /\ log' = [log EXCEPT ![t][Len(log[t])].raised = TRUE]

\* Thread t calls add_post(post).
CallAddPost(t) ==
    /\ calls[t].pc = "idle"
    /\ Len(log[t]) < MaxCallsPerProducer
    /\ \E kws \in ProducerKeywordLists :
          LET post == OSINTPost(ProducerPostId(t), kws)
          IN  /\ calls' = [calls EXCEPT ![t] = Frame("add59", post, <<>>, <<>>)]
              /\ log' = [log EXCEPT ![t] = Append(@, Logged("add_post", post))]
    /\ UNCHANGED <<min_shared_keywords, nodes, adj, keyword_index, last, answer, previous>>

\* if post.post_id in self._nodes: return 0
AddLine59(t) ==
    /\ calls[t].pc = "add59"
    /\ IF DictHas(nodes, calls[t].post.post_id) THEN Return(t) ELSE Goto(t, "add62")
    /\ UNCHANGED <<min_shared_keywords, nodes, adj, keyword_index, last, log, answer, previous>>

\* self._nodes[post.post_id] = post
AddLine62(t) ==
    /\ calls[t].pc = "add62"
    /\ nodes' = DictPut(nodes, calls[t].post.post_id, calls[t].post)
    /\ Goto(t, "add63")
    /\ UNCHANGED <<min_shared_keywords, adj, keyword_index, last, log, answer, previous>>

\* self._adj.setdefault(post.post_id, {})
AddLine63(t) ==
    /\ calls[t].pc = "add63"
    /\ adj' = DictSetDefault(adj, calls[t].post.post_id)
    /\ Goto(t, "add65")
    /\ UNCHANGED <<min_shared_keywords, nodes, keyword_index, last, log, answer, previous>>

\* post_keywords = ..., and the lookup loops that fill candidate_counts.
AddLine65(t) ==
    /\ calls[t].pc = "add65"
    /\ LET cc == candidate_counts(keyword_index, post_keywords(calls[t].post))
       IN  \E order \in Orders(DOMAIN cc) :
              calls' = [calls EXCEPT ![t] = Frame("add73", calls[t].post, cc, order)]
    /\ UNCHANGED <<min_shared_keywords, nodes, adj, keyword_index, last, log, answer, previous>>

\* The edge loop.  self._adj[post.post_id] is evaluated for the first
\* candidate that qualifies, and raises KeyError when the entry is gone.
AddLine73(t) ==
    /\ calls[t].pc = "add73"
    /\ LET f == calls[t]
       IN  IF /\ EdgesCreated(f.order, f.cc, min_shared_keywords) > 0
              /\ ~DictHas(adj, f.post.post_id)
           THEN Raise(t) /\ UNCHANGED adj
           ELSE /\ adj' = AddEdges(adj, f.post.post_id, f.order, f.cc,
                                   min_shared_keywords, 1)
                /\ Goto(t, "add85")
                /\ UNCHANGED log
    /\ UNCHANGED <<min_shared_keywords, nodes, keyword_index, last, answer, previous>>

\* The "Update keyword index" loop, and return edges_created.
AddLine85(t) ==
    /\ calls[t].pc = "add85"
    /\ keyword_index' = IndexAdd(keyword_index, post_keywords(calls[t].post),
                                 calls[t].post.post_id)
    /\ Return(t)
    /\ UNCHANGED <<min_shared_keywords, nodes, adj, last, log, answer, previous>>

\* Thread t calls remove_post(post_id).
CallRemovePost(t) ==
    /\ calls[t].pc = "idle"
    /\ Len(log[t]) < MaxCallsPerProducer
    /\ LET post == OSINTPost(ProducerPostId(t), <<>>)
       IN  /\ calls' = [calls EXCEPT ![t] = Frame("remove114", post, <<>>, <<>>)]
           /\ log' = [log EXCEPT ![t] = Append(@, Logged("remove_post", post))]
    /\ UNCHANGED <<min_shared_keywords, nodes, adj, keyword_index, last, answer, previous>>

\* if post_id not in self._nodes: return
RemoveLine114(t) ==
    /\ calls[t].pc = "remove114"
    /\ IF DictHas(nodes, calls[t].post.post_id) THEN Goto(t, "remove117") ELSE Return(t)
    /\ UNCHANGED <<min_shared_keywords, nodes, adj, keyword_index, last, log, answer, previous>>

\* post = self._nodes[post_id]
RemoveLine117(t) ==
    /\ calls[t].pc = "remove117"
    /\ LET pid == calls[t].post.post_id
       IN  IF DictHas(nodes, pid)
           THEN /\ calls' = [calls EXCEPT
                               ![t] = Frame("remove120", DictGet(nodes, pid), <<>>, <<>>)]
                /\ UNCHANGED log
           ELSE Raise(t)
    /\ UNCHANGED <<min_shared_keywords, nodes, adj, keyword_index, last, answer, previous>>

\* post_keywords = ..., and the "Remove from keyword index" loop.
RemoveLine120(t) ==
    /\ calls[t].pc = "remove120"
    /\ keyword_index' = IndexRemove(keyword_index, post_keywords(calls[t].post),
                                    calls[t].post.post_id)
    /\ Goto(t, "remove127")
    /\ UNCHANGED <<min_shared_keywords, nodes, adj, last, log, answer, previous>>

\* The neighbor loop as far as it gets: <<adjacency, raised>>, raised when
\* self._adj[neighbor_id] is a KeyError.
RECURSIVE RemoveFromNeighborsOrRaise(_, _, _, _)
RemoveFromNeighborsOrRaise(a, pid, neighbor_ids, i) ==
    IF i > Len(neighbor_ids) THEN <<a, FALSE>>
    ELSE LET neighbor_id == neighbor_ids[i]
         IN  IF ~DictHas(a, neighbor_id) THEN <<a, TRUE>>
             ELSE RemoveFromNeighborsOrRaise(
                      DictPut(a, neighbor_id, DictDel(DictGet(a, neighbor_id), pid)),
                      pid, neighbor_ids, i + 1)

\* The "Remove edges from neighbors" loop.
RemoveLine127(t) ==
    /\ calls[t].pc = "remove127"
    /\ LET pid == calls[t].post.post_id
       IN  \E r \in {RemoveFromNeighborsOrRaise(
                         adj, pid, DictKeyList(DictGetOrEmpty(adj, pid)), 1)} :
              /\ adj' = r[1]
              /\ IF r[2] THEN Raise(t) ELSE Goto(t, "remove131") /\ UNCHANGED log
    /\ UNCHANGED <<min_shared_keywords, nodes, keyword_index, last, answer, previous>>

\* del self._adj[post_id]
RemoveLine131(t) ==
    /\ calls[t].pc = "remove131"
    /\ LET pid == calls[t].post.post_id
       IN  IF DictHas(adj, pid)
           THEN adj' = DictDel(adj, pid) /\ Goto(t, "remove132") /\ UNCHANGED log
           ELSE Raise(t) /\ UNCHANGED adj
    /\ UNCHANGED <<min_shared_keywords, nodes, keyword_index, last, answer, previous>>

\* del self._nodes[post_id]
RemoveLine132(t) ==
    /\ calls[t].pc = "remove132"
    /\ LET pid == calls[t].post.post_id
       IN  IF DictHas(nodes, pid)
           THEN nodes' = DictDel(nodes, pid) /\ Return(t) /\ UNCHANGED log
           ELSE Raise(t) /\ UNCHANGED nodes
    /\ UNCHANGED <<min_shared_keywords, adj, keyword_index, last, answer, previous>>

NextShared ==
    \E t \in Producers :
        \/ CallAddPost(t)
        \/ AddLine59(t)
        \/ AddLine62(t)
        \/ AddLine63(t)
        \/ AddLine65(t)
        \/ AddLine73(t)
        \/ AddLine85(t)
        \/ CallRemovePost(t)
        \/ RemoveLine114(t)
        \/ RemoveLine117(t)
        \/ RemoveLine120(t)
        \/ RemoveLine127(t)
        \/ RemoveLine131(t)
        \/ RemoveLine132(t)

SpecShared == Init /\ [][NextShared]_vars

\* ------------------------------------------------------------------------
\* A graph filled in batches
\* ------------------------------------------------------------------------

AddPosts == \E posts \in Batches : add_posts(posts)

FromPosts == \E posts \in Batches, min_shared \in Thresholds : from_posts(posts, min_shared)

NextBatch == AddPosts \/ FromPosts

SpecBatch == Init /\ [][NextBatch]_vars

\* ------------------------------------------------------------------------
\* The graph with a record of what a re-inserted id held before
\* ------------------------------------------------------------------------

AddPostAfter ==
    \E id \in PostIds, kws \in KeywordLists :
        /\ add_post(OSINTPost(id, kws))
        /\ previous' = IF last.removed.post_id = id THEN last.removed ELSE NoPost
        /\ UNCHANGED <<calls, log, answer>>

RemovePostBefore ==
    /\ \E id \in PostIds : remove_post(id)
    /\ previous' = NoPost
    /\ UNCHANGED <<calls, log, answer>>

NextReinsert == AddPostAfter \/ RemovePostBefore

SpecReinsert == Init /\ [][NextReinsert]_vars

\* ------------------------------------------------------------------------
\* A graph that is read between its mutations
\* ------------------------------------------------------------------------

\* The read operations of PostGraph.
ReadOps ==
    {"has_post", "get_post", "get_neighbors", "get_shared_keywords",
     "get_connected_components", "get_clusters", "get_cluster_keywords",
     "edge_count", "get_stats", "get_most_connected"}

\* A read operation returns value to its caller.  The call is recorded in
\* last, with repeat set when the call before it, with no call in between,
\* was the same operation with the same arguments.
Returns(op, args, value) ==
    /\ answer' = Answer(op, args, value)
    /\ last' = Call(op, FALSE, last.op = op /\ answer.args = args, 0, NoPost)
    /\ UNCHANGED <<min_shared_keywords, calls, log, previous>>

HasPost(pid) ==
    /\ Returns("has_post", <<pid>>, has_post(pid))
    /\ UNCHANGED <<nodes, adj, keyword_index>>

GetPost(pid) ==
    /\ Returns("get_post", <<pid>>, get_post(pid))
    /\ UNCHANGED <<nodes, adj, keyword_index>>

\* Variant of GetNeighbors: the adjacency entry is looked up with
\* setdefault, which creates it for an id that has none.
GetNeighbors_setdefault(pid) ==
    /\ Returns("get_neighbors", <<pid>>, get_neighbors(pid))
    /\ adj' = DictSetDefault(adj, pid)
    /\ UNCHANGED <<nodes, keyword_index>>

GetNeighbors(pid) ==
    /\ Returns("get_neighbors", <<pid>>, get_neighbors(pid))
    /\ UNCHANGED <<nodes, adj, keyword_index>>

GetSharedKeywords(id_a, id_b) ==
    /\ Returns("get_shared_keywords", <<id_a, id_b>>, get_shared_keywords(id_a, id_b))
    /\ UNCHANGED <<nodes, adj, keyword_index>>

GetConnectedComponents ==
    /\ Returns("get_connected_components", <<>>, get_connected_components)
    /\ UNCHANGED <<nodes, adj, keyword_index>>

GetClusters(min_size) ==
    /\ Returns("get_clusters", <<min_size>>, get_clusters(min_size))
    /\ UNCHANGED <<nodes, adj, keyword_index>>

GetClusterKeywords(cluster_ids) ==
    /\ Returns("get_cluster_keywords", <<cluster_ids>>, get_cluster_keywords(cluster_ids))
    /\ UNCHANGED <<nodes, adj, keyword_index>>

EdgeCount ==
    /\ Returns("edge_count", <<>>, edge_count)
    /\ UNCHANGED <<nodes, adj, keyword_index>>

GetStats ==
    /\ Returns("get_stats", <<>>, get_stats)
    /\ UNCHANGED <<nodes, adj, keyword_index>>

GetMostConnected(limit) ==
    /\ Returns("get_most_connected", <<limit>>, get_most_connected(limit))
    /\ UNCHANGED <<nodes, adj, keyword_index>>

\* The mutations between the reads; what was read before is forgotten.
AddPostBetweenReads ==
    \E post \in BatchPosts :
        /\ add_post(post)
        /\ answer' = NoAnswer
        /\ UNCHANGED <<calls, log, previous>>

RemovePostBetweenReads ==
    \E pid \in PostIds :
        /\ remove_post(pid)
        /\ answer' = NoAnswer
        /\ UNCHANGED <<calls, log, previous>>

NextReads ==
    \/ AddPostBetweenReads
    \/ RemovePostBetweenReads
    \/ \E pid \in PostIds : HasPost(pid)
    \/ \E pid \in PostIds : GetPost(pid)
    \/ \E pid \in PostIds : GetNeighbors(pid)
    \/ \E id_a, id_b \in PostIds : GetSharedKeywords(id_a, id_b)
    \/ GetConnectedComponents
    \/ \E min_size \in MinSizes : GetClusters(min_size)
    \/ \E cluster_ids \in ClusterIdLists : GetClusterKeywords(cluster_ids)
    \/ EdgeCount
    \/ GetStats
    \/ \E limit \in Limits : GetMostConnected(limit)

SpecReads == Init /\ [][NextReads]_vars

\* ------------------------------------------------------------------------
\* Properties
\* ------------------------------------------------------------------------

NodeIds == DictKeys(nodes)

\* The lowercased keyword set of a current node.
KeywordsOf(pid) == post_keywords(DictGet(nodes, pid))

Shared(a, b) == KeywordsOf(a) \cap KeywordsOf(b)

\* b is a key of adjacency[a]
HasEdge(a, b) == DictHas(DictGetOrEmpty(adj, a), b)

EdgeAt(a, b) == DictGet(DictGet(adj, a), b)

\* Edge.weight
weight(edge) == Cardinality(edge.shared_keywords)

\* C1: every pair of inserted documents whose lowercased keyword sets
\* intersect in at least min_shared_keywords keywords is joined by an edge
\* whose weight is the size of the intersection.  (Fails for threshold 0:
\* add_post finds its candidates through the index, so two documents with
\* no keyword in common are never joined.)
C1_QualifyingPairsJoined ==
    \A a \in NodeIds : \A b \in NodeIds \ {a} :
        Cardinality(Shared(a, b)) >= min_shared_keywords
            => /\ HasEdge(a, b)
               /\ weight(EdgeAt(a, b)) = Cardinality(Shared(a, b))

\* The statement of C1 for thresholds of at least 1, where it holds.
C1_JoinedWhenThresholdPositive ==
    min_shared_keywords >= 1 => C1_QualifyingPairsJoined

\* C2: no edge exists between two documents whose keyword sets share fewer
\* than min_shared_keywords keywords.
C2_NoEdgeBelowThreshold ==
    \A a \in NodeIds : \A b \in NodeIds \ {a} :
        Cardinality(Shared(a, b)) < min_shared_keywords => ~HasEdge(a, b)

\* C2 witness: after a removal, the two documents left share a keyword, but
\* fewer than the threshold, and are not joined.
C2_Witness ==
    /\ last.op = "remove_post" /\ last.present
    /\ \E a \in NodeIds : \E b \in NodeIds \ {a} :
           /\ Shared(a, b) # {}
           /\ Cardinality(Shared(a, b)) < min_shared_keywords
           /\ ~HasEdge(a, b)

\* C3: add_post with an id that is already a node returns 0 and leaves the
\* node table, the adjacency map and the keyword index unchanged, whatever
\* keywords the second document carries.
C3_DuplicateAddIsNoOp ==
    [][\A id \in PostIds, kws \in KeywordLists :
          (has_post(id) /\ add_post(OSINTPost(id, kws)))
              => /\ last'.ret = 0
                 /\ nodes' = nodes
                 /\ adj' = adj
                 /\ keyword_index' = keyword_index]_vars

\* C3 witness: the last call was an add_post for an id that was a node,
\* carrying other keywords than the node's post, in a graph that has edges.
C3_Witness ==
    /\ last.op = "add_post" /\ last.present /\ ~last.repeat
    /\ \E a \in NodeIds : \E b \in NodeIds \ {a} : HasEdge(a, b)

\* The graph obtained by add_post of posts[1], ..., posts[i] in that order on
\* an empty graph, as <<nodes, adj, keyword_index>>.
RECURSIVE InsertedInOrder(_, _, _)
InsertedInOrder(posts, threshold, i) ==
    IF i = 0 THEN <<<<>>, <<>>, <<>>>>
    ELSE LET g == InsertedInOrder(posts, threshold, i - 1)
             r == CHOOSE x \in AddPostResults(g[1], g[2], g[3], threshold, posts[i].val) : TRUE
         IN  <<r[1], r[2], r[3]>>

\* The edges of an adjacency map: which two ids, and the Edge stored.
EdgeSet(a) ==
    UNION {{[ids |-> {a[i].key, a[i].val[j].key}, edge |-> a[i].val[j].val] :
               j \in 1..Len(a[i].val)} : i \in 1..Len(a)}

\* C4: after remove_post of a document and add_post of an identical one, the
\* edge set and the keyword index are those of inserting the current
\* documents in their current order, which has the re-inserted one last.
C4_ReinsertEqualsInsertLast ==
    (last.op = "add_post" /\ ~last.present /\ last.repeat)
        => LET g == InsertedInOrder(nodes, min_shared_keywords, Len(nodes))
           IN  /\ EdgeSet(adj) = EdgeSet(g[2])
               /\ DictKeys(adj) = DictKeys(g[2])
               /\ keyword_index = g[3]

\* C4 witness: a document was removed from a graph of three and put back
\* unchanged, and got an edge again.
C4_Witness ==
    /\ last.op = "add_post" /\ ~last.present /\ last.repeat
    /\ Len(nodes) = 3
    /\ last.ret >= 1

\* C5: get_connected_components partitions the current node set: no
\* component is empty, every id in a component is a node, and every node is
\* at exactly one position of exactly one component.
C5_ComponentsPartitionNodes ==
    LET comps == get_connected_components
        positions(pid) == {<<i, j>> \in (1..Len(comps)) \X (1..Len(nodes)) :
                              j <= Len(comps[i]) /\ comps[i][j] = pid}
    IN  /\ \A i \in 1..Len(comps) :
               /\ comps[i] # <<>>
               /\ Len(comps[i]) <= Len(nodes)
               /\ \A j \in 1..Len(comps[i]) : comps[i][j] \in NodeIds
        /\ \A pid \in NodeIds : Cardinality(positions(pid)) = 1

\* C5 witness: three nodes in two components, one of them an edge.
C5_Witness ==
    /\ last.op # "init"
    /\ Len(nodes) = 3
    /\ Len(get_connected_components) = 2
    /\ Len(get_connected_components[1]) = 2

\* C6: for every node id and keyword k, id is in the postings list of k iff
\* k is in the node's lowercased keyword set, and no postings list holds an
\* id that is not a node.
C6_IndexMatchesNodes ==
    /\ \A kw \in DOMAIN keyword_index : keyword_index[kw] \subseteq NodeIds
    /\ \A pid \in NodeIds : \A kw \in (DOMAIN keyword_index) \cup KeywordsOf(pid) :
           pid \in IndexGet(keyword_index, kw) <=> kw \in KeywordsOf(pid)

\* C6 witness: a post whose keywords were given in upper case is registered
\* under the lowercased keyword, next to another post, after a removal.
C6_Witness ==
    /\ last.op = "remove_post" /\ last.present
    /\ \E pid \in NodeIds :
           /\ DictGet(nodes, pid).matched_keywords = <<"B", "a">>
           /\ IndexGet(keyword_index, "b") \ {pid} # {}
           /\ pid \in IndexGet(keyword_index, "b")

\* C7: each stored edge's shared_keywords is the intersection of the current
\* keyword sets of its two endpoints, and has at least min_shared_keywords
\* elements.
C7_EdgeIsLiveIntersection ==
    \A i \in 1..Len(adj) : \A j \in 1..Len(adj[i].val) :
        LET a == adj[i].key
            b == adj[i].val[j].key
            edge == adj[i].val[j].val
        IN  /\ a \in NodeIds
            /\ b \in NodeIds
            /\ {edge.post_id_a, edge.post_id_b} = {a, b}
            /\ edge.shared_keywords = Shared(a, b)
            /\ weight(edge) >= min_shared_keywords

\* C7 witness: an edge survives the removal of a third document, and its
\* endpoints have keywords outside the shared set.
C7_Witness ==
    /\ last.op = "remove_post" /\ last.present
    /\ \E a \in NodeIds : \E b \in NodeIds \ {a} :
           /\ HasEdge(a, b)
           /\ EdgeAt(a, b).shared_keywords # KeywordsOf(a)
           /\ weight(EdgeAt(a, b)) > min_shared_keywords

\* C8: b is a key of adjacency[a] iff a is a key of adjacency[b], the two
\* slots hold the same edge, and get_shared_keywords is symmetric.
C8_AdjacencySymmetric ==
    /\ \A i \in 1..Len(adj) : \A j \in 1..Len(adj[i].val) :
           LET a == adj[i].key
               b == adj[i].val[j].key
           IN  /\ HasEdge(b, a)
               /\ EdgeAt(b, a) = adj[i].val[j].val
    /\ \A a \in PostIds : \A b \in PostIds :
           get_shared_keywords(a, b) = get_shared_keywords(b, a)

\* C8 witness: a document with two neighbours was removed, and the two are
\* still joined to each other.
C8_Witness ==
    /\ last.op = "remove_post" /\ last.present
    /\ \E a \in NodeIds : \E b \in NodeIds \ {a} :
           /\ HasEdge(a, b)
           /\ Cardinality(post_keywords(last.removed) \cap KeywordsOf(a))
                  >= min_shared_keywords
           /\ Cardinality(post_keywords(last.removed) \cap KeywordsOf(b))
                  >= min_shared_keywords
           /\ post_keywords(last.removed) \cap KeywordsOf(a) # {}
           /\ post_keywords(last.removed) \cap KeywordsOf(b) # {}

\* C9: no keyword of the index maps to an empty set of ids, and the keys of
\* the adjacency map are the keys of the node table.
C9_NoEmptyPostingsAdjKeysAreNodes ==
    /\ \A kw \in DOMAIN keyword_index : keyword_index[kw] # {}
    /\ DictKeys(adj) = NodeIds
    /\ DictKeyList(adj) = DictKeyList(nodes)

\* C9 witness: a removal took the last id out of a postings list, which is
\* gone, while other lists and an isolated node remain.
C9_Witness ==
    /\ last.op = "remove_post" /\ last.present
    /\ \E kw \in post_keywords(last.removed) : kw \notin DOMAIN keyword_index
    /\ DOMAIN keyword_index # {}
    /\ \E pid \in NodeIds : DictGet(adj, pid) = <<>>

\* C10: no document id is a key of its own adjacency entry, for any
\* threshold, 0 included.
C10_NoSelfLoops ==
    \A i \in 1..Len(adj) : ~DictHas(adj[i].val, adj[i].key)

\* C10 witness: with threshold 0, a post with keywords was added and joined
\* to the two posts that share a keyword with it.
C10_Witness ==
    /\ min_shared_keywords = 0
    /\ last.op = "add_post" /\ ~last.present
    /\ last.ret = 2
    /\ KeywordsOf(nodes[Len(nodes)].key) # {}

\* The current documents that share at least min_shared_keywords keywords
\* with a post.
Qualifying(post) ==
    {o \in NodeIds :
        Cardinality(post_keywords(post) \cap KeywordsOf(o)) >= min_shared_keywords}

\* C11: for an id not yet present, the integer add_post returns is the
\* number of existing documents sharing at least min_shared_keywords
\* keywords with the new one, the new node's degree right afterwards, and
\* the increase of edge_count.  (Fails for threshold 0: an existing document
\* with no keyword in common shares 0 >= 0 keywords but is not counted.)
C11_ReturnCountsQualifying ==
    [][\A id \in PostIds, kws \in KeywordLists :
          (~has_post(id) /\ add_post(OSINTPost(id, kws)))
              => /\ last'.ret = Cardinality(Qualifying(OSINTPost(id, kws)))
                 /\ last'.ret = Len(DictGet(adj', id))
                 /\ last'.ret = edge_count' - edge_count]_vars

\* The statement of C11 for thresholds of at least 1, where it holds, and
\* its last two parts for every threshold.
C11_HoldsWhenThresholdPositive ==
    [][\A id \in PostIds, kws \in KeywordLists :
          (~has_post(id) /\ add_post(OSINTPost(id, kws)))
              => /\ min_shared_keywords >= 1
                        => last'.ret = Cardinality(Qualifying(OSINTPost(id, kws)))
                 /\ last'.ret = Len(DictGet(adj', id))
                 /\ last'.ret = edge_count' - edge_count]_vars

\* The keywords in use, lowercased.
AllKeywords == UNION {post_keywords(OSINTPost("", kws)) : kws \in KeywordLists}

\* C12: remove_post of a present id removes the node, its adjacency entry,
\* its id from every postings list and from every adjacency entry, and
\* leaves every other node, every edge between two other documents and every
\* other document's index registrations as they were.
C12_RemoveTouchesOnlyThePost ==
    [][\A id \in PostIds :
          (has_post(id) /\ remove_post(id))
              => /\ ~DictHas(nodes', id)
                 /\ ~DictHas(adj', id)
                 /\ \A kw \in DOMAIN keyword_index' : id \notin keyword_index'[kw]
                 /\ \A i \in 1..Len(adj') : ~DictHas(adj'[i].val, id)
                 /\ DictKeyList(nodes') = SelectSeq(DictKeyList(nodes), LAMBDA k : k # id)
                 /\ DictKeyList(adj') = SelectSeq(DictKeyList(adj), LAMBDA k : k # id)
                 /\ \A o \in NodeIds \ {id} :
                        /\ DictGet(nodes', o) = DictGet(nodes, o)
                        /\ DictGet(adj', o) =
                               SelectSeq(DictGet(adj, o), LAMBDA e : e.key # id)
                        /\ \A kw \in AllKeywords :
                               o \in IndexGet(keyword_index', kw)
                                   <=> o \in IndexGet(keyword_index, kw)]_vars

\* C12 witness: the post removed had an edge to each of the two posts left,
\* which are still joined to each other and still registered under a
\* keyword the removed post carried.
C12_Witness ==
    /\ last.op = "remove_post" /\ last.present
    /\ Len(nodes) = 2
    /\ \A o \in NodeIds :
           /\ Len(DictGet(adj, o)) = 1
           /\ post_keywords(last.removed) \cap KeywordsOf(o) # {}
           /\ Cardinality(post_keywords(last.removed) \cap KeywordsOf(o))
                  >= min_shared_keywords

\* What a reader of the graph can tell apart: the posts held, the ids with
\* an adjacency entry, the edges, and the index.
GraphView(n, a, index) ==
    <<{n[i] : i \in 1..Len(n)}, DictKeys(a), EdgeSet(a), index>>

\* C13: whenever a read operation of another thread can run, that is in
\* every state of the shared graph, every node is registered in the index
\* under each of its keywords, every id registered in the index is a node,
\* and every id in a neighbor's adjacency entry is a node.
C13_NoPartialUpdateObservable ==
    /\ \A pid \in NodeIds : \A kw \in KeywordsOf(pid) :
          pid \in IndexGet(keyword_index, kw)
    /\ \A kw \in DOMAIN keyword_index : keyword_index[kw] \subseteq NodeIds
    /\ \A i \in 1..Len(adj) : DictKeys(adj[i].val) \subseteq NodeIds

\* The state C13's failing input leads to: a producer is inside add_post,
\* past line 62, and has_post answers True for a document no keyword of
\* which is in the index.
C13_NodeBeforeIndex ==
    \E t \in Producers :
        /\ calls[t].pc = "add63"
        /\ has_post(calls[t].post.post_id)
        /\ keyword_index = <<>>

\* The state a remove_post leaves observable between its index loop and its
\* last line: the document is deindexed and still a node.
C13_DeindexedStillNode ==
    \E t \in Producers :
        /\ calls[t].pc = "remove127"
        /\ has_post(calls[t].post.post_id)
        /\ \A kw \in DOMAIN keyword_index :
              calls[t].post.post_id \notin keyword_index[kw]

\* The ways of running the calls of two threads one after another, each
\* thread's calls in the order it made them.
RECURSIVE Interleavings(_, _)
Interleavings(s1, s2) ==
    IF s1 = <<>> THEN {s2}
    ELSE IF s2 = <<>> THEN {s1}
    ELSE {<<Head(s1)>> \o r : r \in Interleavings(Tail(s1), s2)}
           \cup {<<Head(s2)>> \o r : r \in Interleavings(s1, Tail(s2))}

\* The graphs <<nodes, adj, keyword_index>> that running seq[1..i] call
\* after call on an empty graph can give.
RECURSIVE SerialResults(_, _, _)
SerialResults(seq, threshold, i) ==
    IF i = 0 THEN {<<<<>>, <<>>, <<>>>>}
    ELSE UNION {
           IF seq[i].op = "add_post"
           THEN {<<r[1], r[2], r[3]>> :
                    r \in AddPostResults(g[1], g[2], g[3], threshold, seq[i].post)}
           ELSE {RemovePostResult(g[1], g[2], g[3], seq[i].post.post_id)}
           : g \in SerialResults(seq, threshold, i - 1)}

\* No producer is inside a call.
Quiescent == \A t \in Producers : calls[t].pc = "idle"

\* C14: once the calls issued by the concurrent producers have returned,
\* none has raised and the graph is one that some serial order of the same
\* calls gives; so an edge a serial order creates is not lost.
C14_MutationsSerializable ==
    Quiescent =>
        /\ \A t \in Producers : \A i \in 1..Len(log[t]) : ~log[t][i].raised
        /\ \E seq \in Interleavings(log["t1"], log["t2"]) :
              \E g \in SerialResults(seq, min_shared_keywords, Len(seq)) :
                  GraphView(nodes, adj, keyword_index) = GraphView(g[1], g[2], g[3])

\* The state C14's failing input leads to: each producer made one add_post,
\* both returned, the two documents share as many keywords as the threshold
\* asks for, and there is no edge between them.
C14_EdgeLost ==
    /\ Quiescent
    /\ \A t \in Producers : Len(log[t]) = 1 /\ log[t][1].op = "add_post"
    /\ NodeIds = {"p1", "p2"}
    /\ Cardinality(Shared("p1", "p2")) >= min_shared_keywords
    /\ ~HasEdge("p1", "p2") /\ ~HasEdge("p2", "p1")

\* A call of a producer ended in KeyError.
C14_CallRaised ==
    \E t \in Producers : \E i \in 1..Len(log[t]) : log[t][i].raised

\* cluster_ids without the ids that are not nodes.
PresentOnly(cluster_ids) == SelectSeq(cluster_ids, LAMBDA pid : has_post(pid))

\* What the read operations return for an id that is not a node.
ReadsOfAbsentIdsAreEmpty ==
    \A pid \in PostIds \ NodeIds :
        /\ get_neighbors(pid) = <<>>
        /\ \A other \in PostIds :
              /\ get_shared_keywords(pid, other) = {}
              /\ get_shared_keywords(other, pid) = {}
        /\ get_post(pid) = NoPost
        /\ \A ids \in ClusterIdLists :
              get_cluster_keywords(ids) = get_cluster_keywords(PresentOnly(ids))

\* C15: remove_post of an id that is not a node changes neither the nodes,
\* nor the adjacency, nor the index; and for such an id get_neighbors is
\* empty, get_shared_keywords is empty whichever side the id is on, get_post
\* is None, and get_cluster_keywords counts as if the id were not listed.
C15_UnknownIdIsNoOp ==
    /\ []ReadsOfAbsentIdsAreEmpty
    /\ [][\A pid \in PostIds :
            (remove_post(pid) /\ ~has_post(pid))
                => UNCHANGED <<nodes, adj, keyword_index>>]_vars

\* C15 witness: remove_post was just called with an id that is not a node,
\* on a graph that has an edge and registrations to lose.
C15_Witness ==
    /\ last.op = "remove_post" /\ ~last.present
    /\ Len(nodes) = 2
    /\ edge_count = 1

\* The ids of the documents get_neighbors(pid) returns, in order.
NeighborIds(pid) ==
    [i \in 1..Len(get_neighbors(pid)) |-> get_neighbors(pid)[i][1].post_id]

\* C16: get_neighbors(id) holds one pair for each document adjacent to id
\* and no other: its length is the degree of id, no document comes twice,
\* each pair is the current node and the edge stored between the two; it is
\* empty when id is not a node or has no edge.
C16_NeighborsAreTheAdjacentDocuments ==
    \A pid \in PostIds :
        LET result == get_neighbors(pid)
            ids == NeighborIds(pid)
        IN  /\ Len(result) = Cardinality({other \in PostIds : HasEdge(pid, other)})
            /\ {ids[i] : i \in 1..Len(ids)} = {other \in PostIds : HasEdge(pid, other)}
            /\ \A i, j \in 1..Len(ids) : ids[i] = ids[j] => i = j
            /\ \A i \in 1..Len(result) :
                  /\ has_post(ids[i])
                  /\ result[i][1] = get_post(ids[i])
                  /\ result[i][2] = EdgeAt(pid, ids[i])
            /\ (~has_post(pid) \/ DictGetOrEmpty(adj, pid) = <<>>) => result = <<>>

\* C16 witness: three nodes, one with two neighbors, one of the others with
\* a single neighbor.
C16_Witness ==
    /\ Len(nodes) = 3
    /\ \E pid \in NodeIds : Len(get_neighbors(pid)) = 2
    /\ \E pid \in NodeIds : Len(get_neighbors(pid)) = 1

\* C17: get_shared_keywords(a, b) is the shared-keyword set of the edge
\* between a and b when there is one, in either argument order, and the
\* empty set when there is none or an id is not a node; for a threshold of
\* at least 1 it is non-empty exactly when the edge exists.
C17_SharedKeywordsOfTheEdge ==
    \A id_a, id_b \in PostIds :
        LET edges == {e \in EdgeSet(adj) : e.ids = {id_a, id_b}}
            result == get_shared_keywords(id_a, id_b)
        IN  /\ edges # {} => \A e \in edges : result = e.edge.shared_keywords
            /\ edges = {} => result = {}
            /\ (~has_post(id_a) \/ ~has_post(id_b)) => result = {}
            /\ min_shared_keywords >= 1 => (result # {} <=> edges # {})

\* C17 witness: at a threshold of 2, two documents with one keyword in
\* common and no edge, and two joined by an edge.
C17_Witness ==
    /\ min_shared_keywords = 2
    /\ \E id_a, id_b \in NodeIds :
          /\ id_a # id_b
          /\ Shared(id_a, id_b) # {}
          /\ get_shared_keywords(id_a, id_b) = {}
    /\ \E id_a, id_b \in NodeIds : get_shared_keywords(id_a, id_b) # {}

\* The position in the node table of the member of a component that was
\* inserted first.
EarliestMember(comp) ==
    CHOOSE i \in 1..Len(nodes) :
        /\ \E j \in 1..Len(comp) : comp[j] = nodes[i].key
        /\ \A k \in 1..(i - 1) : \A j \in 1..Len(comp) : comp[j] # nodes[k].key

\* C18: get_connected_components lists larger components before smaller
\* ones, and of two components of one size first the one whose earliest
\* inserted member was inserted first; the node table keeps that order,
\* since a successful add_post puts its id after all current ones and a
\* remove_post leaves the others in their order.
C18_ComponentsBySizeThenInsertion ==
    /\ [](LET comps == get_connected_components
          IN  \A i, j \in 1..Len(comps) :
                 i < j => /\ Len(comps[i]) >= Len(comps[j])
                          /\ Len(comps[i]) = Len(comps[j])
                                => EarliestMember(comps[i]) < EarliestMember(comps[j]))
    /\ [][/\ \A id \in PostIds, kws \in KeywordLists :
                (add_post(OSINTPost(id, kws)) /\ ~has_post(id))
                    => DictKeyList(nodes') = Append(DictKeyList(nodes), id)
          /\ \A id \in PostIds :
                remove_post(id)
                    => DictKeyList(nodes') =
                          SelectSeq(DictKeyList(nodes), LAMBDA k : k # id)]_vars

\* C18 witness: the document inserted first is alone, the two inserted
\* after it are joined, and their component is listed first.
C18_Witness ==
    /\ Len(nodes) = 3
    /\ Len(get_connected_components) = 2
    /\ get_connected_components[2] = <<nodes[1].key>>

\* Components of one size whose order is not that of the ids: a document was
\* removed and inserted again, and is listed after the others.
C18_TieAfterReinsertion ==
    /\ DictKeyList(nodes) = <<"p2", "p3", "p1">>
    /\ get_connected_components = <<<<"p2">>, <<"p3">>, <<"p1">>>>

\* C19: get_clusters(min_size) is the list of the components of
\* get_connected_components with at least min_size members, in their order
\* and with their members in order, each id replaced by its document; with
\* min_size at most 1 no component is left out.
C19_ClustersAreTheLargeComponents ==
    \A min_size \in MinSizes :
        LET comps == get_connected_components
            kept == SelectSeq(comps, LAMBDA c : Len(c) >= min_size)
            result == get_clusters(min_size)
        IN  /\ Len(result) = Len(kept)
            /\ \A i \in 1..Len(kept) :
                  /\ Len(result[i]) = Len(kept[i])
                  /\ \A j \in 1..Len(kept[i]) : result[i][j] = get_post(kept[i][j])
            /\ min_size <= 1 => Len(result) = Len(comps)

\* C19 witness: a component of two and a component of one, so that the
\* default min_size of 2 keeps the first and drops the second.
C19_Witness ==
    /\ Len(get_connected_components) = 2
    /\ Len(get_clusters(2)) = 1
    /\ Len(get_clusters(2)[1]) = 2
    /\ Len(get_clusters(1)) = 2
    /\ get_clusters(3) = <<>>

\* The documents of the graph named in cluster_ids.
Members(cluster_ids) == {cluster_ids[i] : i \in 1..Len(cluster_ids)} \cap NodeIds

\* C20: get_cluster_keywords(ids) has an entry for each lowercased keyword
\* carried by a member document, holding the number of member documents
\* that carry it, so no entry is larger than the number of distinct members.
C20_CountsMemberDocuments ==
    \A ids \in ClusterIdLists :
        LET counts == get_cluster_keywords(ids)
        IN  /\ DOMAIN counts = UNION {KeywordsOf(pid) : pid \in Members(ids)}
            /\ \A kw \in DOMAIN counts :
                  /\ counts[kw] = Cardinality({pid \in Members(ids) : kw \in KeywordsOf(pid)})
                  /\ counts[kw] <= Cardinality(Members(ids))

\* The number of positions of a list that satisfy Test.
Occurrences(list, Test(_)) == Len(SelectSeq(list, Test))

RECURSIVE SumOver(_, _, _)
SumOver(list, Weight(_), i) ==
    IF i > Len(list) THEN 0 ELSE Weight(list[i]) + SumOver(list, Weight, i + 1)

\* What the code counts instead: for each keyword, its occurrences in the
\* matched_keywords lists, whatever their casing, once for each time the
\* document is listed in ids.
C20_CountsOccurrences ==
    \A ids \in ClusterIdLists :
        LET counts == get_cluster_keywords(ids)
            present == PresentOnly(ids)
        IN  /\ DOMAIN counts = UNION {KeywordsOf(pid) : pid \in Members(ids)}
            /\ \A kw \in DOMAIN counts :
                  LET InPost(pid) ==
                          Occurrences(get_post(pid).matched_keywords,
                                      LAMBDA k : Lower(k) = kw)
                  IN  counts[kw] = SumOver(present, InPost, 1)

\* The state C20's failing input leads to: one document listing "c" and "C".
C20_CountAboveMembers ==
    /\ has_post("p1")
    /\ get_post("p1").matched_keywords = <<"c", "b", "C">>
    /\ get_cluster_keywords(<<"p1">>)["c"] = 2

\* The unordered pairs of distinct nodes joined by an edge.
JoinedPairs ==
    {pair \in SUBSET NodeIds :
        /\ Cardinality(pair) = 2
        /\ \E a \in pair, b \in pair : a # b /\ HasEdge(a, b)}

\* C21: edge_count, and the edge_count entry of get_stats, is half the sum
\* of the sizes of the adjacency entries; that sum is even; and the value
\* is the number of unordered pairs of distinct nodes joined by an edge.
C21_EdgeCountIsHalfDegreeSum ==
    LET Size(pid) == Len(DictGet(adj, pid))
        total == SumOver(DictKeyList(adj), Size, 1)
    IN  /\ total % 2 = 0
        /\ 2 * edge_count = total
        /\ get_stats.edge_count = edge_count
        /\ edge_count = Cardinality(JoinedPairs)

\* C21 witness: three nodes and two edges, so that one adjacency entry has
\* two items and the others one.
C21_Witness ==
    /\ Len(nodes) = 3
    /\ edge_count = 2
    /\ \E pid \in NodeIds : Len(DictGet(adj, pid)) = 2

\* C22: get_stats gives the number of nodes, the number of connected
\* components and the size of the largest one; on an empty graph all of
\* node_count, edge_count, component_count, largest_component_size and
\* avg_degree are 0.
C22_StatsCountNodesAndComponents ==
    LET stats == get_stats
        comps == get_connected_components
    IN  /\ stats.node_count = Cardinality(NodeIds)
        /\ stats.component_count = Len(comps)
        /\ \A i \in 1..Len(comps) : Len(comps[i]) <= stats.largest_component_size
        /\ comps # <<>> => \E i \in 1..Len(comps) :
                              Len(comps[i]) = stats.largest_component_size
        /\ nodes = <<>> =>
              stats = [node_count |-> 0, edge_count |-> 0, component_count |-> 0,
                       largest_component_size |-> 0, avg_degree |-> 0]

\* C22 witness: a component of two and a component of one, and an average
\* degree of 2/3 reported as 0.67.
C22_Witness ==
    /\ get_stats.node_count = 3
    /\ get_stats.component_count = 2
    /\ get_stats.largest_component_size = 2
    /\ get_stats.avg_degree = 67

\* The position of an id in the node table.
NodePosition(pid) == CHOOSE i \in 1..Len(nodes) : nodes[i].key = pid

\* C23: get_most_connected(limit), limit >= 0, returns min(limit,
\* node_count) pairs, no document twice, each the current node with the size
\* of its adjacency entry, by degree descending and, for equal degrees, in
\* the order of the node table; no node left out has a higher degree than
\* the last pair returned.
C23_MostConnectedByDegreeThenInsertion ==
    \A limit \in Limits :
        LET result == get_most_connected(limit)
            ids == [i \in 1..Len(result) |-> result[i][1].post_id]
            returned == {ids[i] : i \in 1..Len(ids)}
        IN  /\ Len(result) = IF limit < Len(nodes) THEN limit ELSE Len(nodes)
            /\ \A i, j \in 1..Len(ids) : ids[i] = ids[j] => i = j
            /\ \A i \in 1..Len(result) :
                  /\ has_post(ids[i])
                  /\ result[i][1] = get_post(ids[i])
                  /\ result[i][2] = Len(DictGet(adj, ids[i]))
            /\ \A i, j \in 1..Len(result) :
                  i < j => /\ result[i][2] >= result[j][2]
                           /\ result[i][2] = result[j][2]
                                 => NodePosition(ids[i]) < NodePosition(ids[j])
            /\ result # <<>> =>
                  \A pid \in NodeIds \ returned :
                      Len(DictGet(adj, pid)) <= result[Len(result)][2]

\* C23 witness: the node inserted first has no edge and the two after it
\* are joined, so the sort moves them ahead in their insertion order, and a
\* limit of 2 leaves the first node out.
C23_Witness ==
    /\ Len(nodes) = 3
    /\ Len(DictGet(adj, nodes[1].key)) = 0
    /\ get_most_connected(2) = <<<<nodes[2].val, 1>>, <<nodes[3].val, 1>>>>
    /\ Len(get_most_connected(MaxLimit)) = 3

\* C24: with a threshold of 0 or less the graph is complete: any two
\* distinct nodes are joined by an edge, also when they have no keyword in
\* common.
C24_CompleteGraphAtThresholdZero ==
    min_shared_keywords <= 0 =>
        \A a, b \in NodeIds : a # b => HasEdge(a, b) /\ HasEdge(b, a)

\* The state C24's failing input leads to: threshold 0, two documents with
\* no keyword in common, returned 0, no edge.
C24_DisjointPairNotJoined ==
    /\ min_shared_keywords = 0
    /\ DictKeyList(nodes) = <<"p1", "p2">>
    /\ Shared("p1", "p2") = {}
    /\ last.op = "add_post" /\ last.ret = 0
    /\ edge_count = 0

\* What the code does at threshold 0: it joins exactly the pairs that have
\* a keyword in common.
C24_ThresholdZeroJoinsOverlappingPairs ==
    min_shared_keywords = 0 =>
        \A a, b \in NodeIds : a # b => (HasEdge(a, b) <=> Shared(a, b) # {})

\* A node without keywords has no edge and no index registration.
KeywordlessNodesIsolated ==
    \A pid \in NodeIds :
        KeywordsOf(pid) = {} =>
            /\ DictGet(adj, pid) = <<>>
            /\ \A other \in NodeIds : ~HasEdge(other, pid)
            /\ \A kw \in DOMAIN keyword_index : pid \notin keyword_index[kw]

\* C25: a document with no keywords is isolated in every reachable state,
\* whatever the threshold and whatever calls come after its insertion; its
\* add_post returns 0 and leaves the index as it was.
C25_KeywordlessDocumentIsolated ==
    /\ []KeywordlessNodesIsolated
    /\ [][\A id \in PostIds :
            (add_post(OSINTPost(id, <<>>)) /\ ~has_post(id))
                => /\ last'.ret = 0
                   /\ keyword_index' = keyword_index
                   /\ edge_count_of(adj') = edge_count]_vars

\* C25 witness: at threshold 0, a document with no keywords stands between
\* two documents that were joined after it was inserted.
C25_Witness ==
    /\ min_shared_keywords = 0
    /\ Len(nodes) = 3
    /\ nodes[2].val.matched_keywords = <<>>
    /\ HasEdge(nodes[1].key, nodes[3].key)
    /\ last.op = "add_post" /\ last.ret = 1

\* The outcomes <<nodes, adj, keyword_index, sum of the results>> of
\* add_post of posts[1], ..., posts[i], call after call, from graph g.
RECURSIVE OneByOne(_, _, _, _)
OneByOne(g, threshold, posts, i) ==
    IF i = 0 THEN {<<g[1], g[2], g[3], 0>>}
    ELSE UNION {{<<r[1], r[2], r[3], h[4] + r[4]>> :
                    r \in AddPostResults(h[1], h[2], h[3], threshold, posts[i])}
                : h \in OneByOne(g, threshold, posts, i - 1)}

\* C26: add_posts(list) leaves the graph add_post of each element in list
\* order leaves; nodes_added is the number of distinct ids of the list that
\* were not nodes; edges_created is the sum of the add_post results and the
\* increase of edge_count; from_posts(list, T) gives the graph that
\* add_posts(list) gives on an empty graph with threshold T.
C26_BatchEqualsOneByOne ==
    [][/\ last'.op = "add_posts" =>
             LET posts == answer'.args
                 stats == answer'.value
             IN  /\ \E g \in OneByOne(<<nodes, adj, keyword_index>>,
                                      min_shared_keywords, posts, Len(posts)) :
                        /\ nodes' = g[1]
                        /\ adj' = g[2]
                        /\ keyword_index' = g[3]
                        /\ stats.edges_created = g[4]
                 /\ stats.nodes_added =
                        Cardinality({posts[i].post_id : i \in 1..Len(posts)} \ NodeIds)
                 /\ stats.edges_created = edge_count_of(adj') - edge_count
       /\ last'.op = "from_posts" =>
             LET posts == answer'.args[1]
                 min_shared == answer'.args[2]
             IN  /\ min_shared_keywords' = min_shared
                 /\ \E g \in OneByOne(<<<<>>, <<>>, <<>>>>, min_shared, posts, Len(posts)) :
                        /\ nodes' = g[1]
                        /\ adj' = g[2]
                        /\ keyword_index' = g[3]]_vars

\* C26 witness: add_posts was called with a list that names one id twice,
\* with different keywords, on a graph where the id was not a node; it
\* added one node and one edge.
C26_Witness ==
    /\ answer.op = "add_posts"
    /\ last.op = "add_posts"
    /\ Len(answer.args) = 2
    /\ answer.args[1].post_id = answer.args[2].post_id
    /\ answer.args[1] # answer.args[2]
    /\ answer.value = [nodes_added |-> 1, edges_created |-> 1]

\* A graph built by from_posts from a list of two posts that are joined.
C26_FromPostsJoined ==
    /\ last.op = "from_posts"
    /\ Len(nodes) = 2
    /\ edge_count = 1

\* C27: when an id is inserted again right after its removal, with the same
\* or with other keywords, it is the last node, and the edges, the
\* adjacency keys and the index are those of a graph built from nothing by
\* inserting the current documents in their current order: nothing of what
\* the id held before is left.
C27_ReinsertIsFreshInsert ==
    (last.op = "add_post" /\ ~last.present /\ previous # NoPost)
        => LET g == InsertedInOrder(nodes, min_shared_keywords, Len(nodes))
           IN  /\ nodes[Len(nodes)].key = previous.post_id
               /\ DictKeyList(g[1]) = DictKeyList(nodes)
               /\ EdgeSet(adj) = EdgeSet(g[2])
               /\ DictKeys(adj) = DictKeys(g[2])
               /\ keyword_index = g[3]

\* C27 witness: a document was removed from a graph of three and inserted
\* again with a keyword it did not carry before and without one it did,
\* and got an edge.
C27_Witness ==
    /\ last.op = "add_post" /\ ~last.present /\ previous # NoPost
    /\ Len(nodes) = 3
    /\ KeywordsOf(previous.post_id) \ post_keywords(previous) # {}
    /\ post_keywords(previous) \ KeywordsOf(previous.post_id) # {}
    /\ last.ret >= 1

\* The ids that a path of edges of adjacency map a joins to an id of
\* reached without passing through the id excluded.
RECURSIVE Reach(_, _, _)
Reach(a, reached, excluded) ==
    LET further == reached \cup
                   (UNION {DictKeys(DictGetOrEmpty(a, u)) : u \in reached} \ {excluded})
    IN  IF further = reached THEN reached ELSE Reach(a, further, excluded)

\* The members of the component of comps that holds id u.
ComponentOf(comps, u) ==
    UNION {{comps[i][j] : j \in 1..Len(comps[i])} :
              i \in {k \in 1..Len(comps) : \E j \in 1..Len(comps[k]) : comps[k][j] = u}}

\* C28: after remove_post(x), two remaining nodes are in one component
\* exactly when a path that avoids x joined them before; a component that
\* did not hold x is listed as it was; and a neighbor of x with no other
\* connection is a component of its own and in no cluster of get_clusters(2).
C28_RemoveSplitsComponents ==
    [][(last'.op = "remove_post" /\ last'.present) =>
          LET x == last'.removed.post_id
              before == components_of(nodes, adj)
              after == components_of(nodes', adj')
              clusters == ClustersFrom(nodes', after, 2, 1)
          IN  /\ \A u, v \in DictKeys(nodes') :
                    v \in ComponentOf(after, u) <=> v \in Reach(adj, {u}, x)
              /\ \A i \in 1..Len(before) :
                    (\A j \in 1..Len(before[i]) : before[i][j] # x)
                        => \E k \in 1..Len(after) : after[k] = before[i]
              /\ \A u \in DictKeys(DictGet(adj, x)) :
                    Reach(adj, {u}, x) = {u} =>
                        /\ \E k \in 1..Len(after) : after[k] = <<u>>
                        /\ \A k \in 1..Len(clusters) : \A j \in 1..Len(clusters[k]) :
                              clusters[k][j].post_id # u]_vars

\* C28 witness: the document that joined the two others was removed; they
\* have no keyword in common, are two components of one, and get_clusters(2)
\* is empty.
C28_Witness ==
    /\ last.op = "remove_post" /\ last.present
    /\ min_shared_keywords = 1
    /\ Len(nodes) = 2
    /\ \A pid \in NodeIds : post_keywords(last.removed) \cap KeywordsOf(pid) # {}
    /\ Shared(nodes[1].key, nodes[2].key) = {}
    /\ get_connected_components = <<<<nodes[1].key>>, <<nodes[2].key>>>>
    /\ get_clusters(2) = <<>>

\* The position in component comp of the member through which the
\* traversal first met comp[k]: the first member adjacent to it.
Parent(comp, k) ==
    CHOOSE p \in 1..(k - 1) :
        /\ HasEdge(comp[p], comp[k])
        /\ \A q \in 1..(p - 1) : ~HasEdge(comp[q], comp[k])

\* The position of id v in the adjacency entry of id u.
AdjacencyPosition(u, v) ==
    CHOOSE i \in 1..Len(DictGet(adj, u)) : DictGet(adj, u)[i].key = v

\* C29: two nodes are in one component of get_connected_components exactly
\* when a path of edges joins them; each component starts with its member
\* inserted first, and lists the others in breadth-first order from it:
\* each after a member adjacent to it, those met through an earlier member
\* first, and those met through one member in the order of its adjacency
\* entry.
C29_ComponentsMaximalInBfsOrder ==
    LET comps == get_connected_components
    IN  /\ \A u, v \in NodeIds :
              v \in ComponentOf(comps, u) <=> v \in Reach(adj, {u}, "")
        /\ \A i \in 1..Len(comps) :
              LET comp == comps[i]
              IN  /\ \A k \in 2..Len(comp) :
                        /\ NodePosition(comp[1]) < NodePosition(comp[k])
                        /\ \E p \in 1..(k - 1) : HasEdge(comp[p], comp[k])
                  /\ \A k, m \in 2..Len(comp) :
                        k < m =>
                           /\ Parent(comp, k) <= Parent(comp, m)
                           /\ Parent(comp, k) = Parent(comp, m) =>
                                 AdjacencyPosition(comp[Parent(comp, k)], comp[k])
                                    < AdjacencyPosition(comp[Parent(comp, k)], comp[m])

\* C29 witness: three nodes in one component, listed from the first
\* inserted in breadth-first order, which is not the order of insertion:
\* the node inserted last is adjacent to the first and comes second.
C29_Witness ==
    /\ Len(nodes) = 3
    /\ Len(get_connected_components) = 1
    /\ get_connected_components[1] = <<nodes[1].key, nodes[3].key, nodes[2].key>>

\* A component of three that is a path: its last member is met through the
\* second, not through the first.
C29_PathOfThree ==
    /\ Len(get_connected_components) = 1
    /\ Len(get_connected_components[1]) = 3
    /\ edge_count = 2
    /\ ~HasEdge(get_connected_components[1][1], get_connected_components[1][3])

\* C30: every step of a read operation (has_post, get_post, get_neighbors,
\* get_shared_keywords, get_connected_components, get_clusters,
\* get_cluster_keywords, edge_count, get_stats, get_most_connected) leaves
\* the node table, the adjacency map and the keyword index as they were,
\* and a read that repeats the call before it, with no mutation in between,
\* returns what that call returned.
C30_ReadsLeaveGraphUnchanged ==
    [][last'.op \in ReadOps =>
          /\ UNCHANGED <<nodes, adj, keyword_index>>
          /\ last'.repeat => answer'.value = answer.value]_vars

\* C30 witness: get_neighbors was called twice in a row on a graph with an
\* edge, for an id that has a neighbor.
C30_Witness ==
    /\ last.op = "get_neighbors"
    /\ last.repeat
    /\ answer.value # <<>>
    /\ edge_count > 0

\* A read of an id that is not in the graph, called twice in a row.
C30_RepeatedReadOfAbsentId ==
    /\ last.op = "get_neighbors"
    /\ last.repeat
    /\ ~has_post(answer.args[1])


====
